---------------------------- MODULE Spec2Model ----------------------------
(***************************************************************************)
(* Model of research/trails.ipynb: the restaurant voice agent prototype.   *)
(*                                                                         *)
(* The notebook defines classify_intent, generate_response,                *)
(* generate_twiml_response, parse_order_details, save_order,               *)
(* calculate_order_total, parse_datetime and the scripted call flow        *)
(* simulate_call.  The state is the notebook's global state: the two       *)
(* database tables behind `session`, the conversation history of the call  *)
(* in progress and the values the cells print.                             *)
(*                                                                         *)
(* Text on which the code computes (str.strip, str.lower, dict lookup by   *)
(* name) is a sequence of one-character strings; text that is only passed  *)
(* around (utterances, replies) is a TLA+ string.                          *)
(***************************************************************************)
EXTENDS Integers, Sequences, FiniteSets, TLC

VARIABLES
    pc,                   \* statement of simulate_call about to run
    conversation_history, \* simulate_call: list of exchange dicts
    intent,               \* simulate_call / test cell: result of classify_intent
    messages,             \* generate_response: message list last sent to the model
    order_details,        \* simulate_call: result of parse_order_details
    order_id,             \* simulate_call: result of save_order
    orders,               \* rows of table 'orders'
    conversations,        \* rows of table 'conversations'
    exc,                  \* exception that ended the running cell, or NoExc
    attempts,             \* requests sent to the model by the call in progress
    runs,                 \* executions of the simulate_call cell so far
    twiml_args,           \* test cell: arguments of generate_twiml_response
    twiml_response,       \* test cell: its result
    total_args,           \* argument of the last calculate_order_total call
    order_total,          \* its result
    response,             \* what the last request to the model came back with
    ai_response,          \* simulate_call: reply returned by generate_response
    wpc,                  \* per turn in flight: statement about to run
    wtranscript,          \* per turn in flight: the caller's transcript
    wresp,                \* per turn in flight: reply generated for it
    wseen                 \* per turn in flight: messages it sent to the model

vars == <<pc, conversation_history, intent, messages, order_details, order_id,
          orders, conversations, exc, attempts, runs, twiml_args,
          twiml_response, total_args, order_total, response,
          ai_response, wpc, wtranscript, wresp, wseen>>

callVars == <<pc, conversation_history, intent, messages, order_details,
              order_id, orders, conversations, exc, attempts, runs, response,
              ai_response>>

cellVars == <<twiml_args, twiml_response, total_args, order_total>>

turnVars == <<wpc, wtranscript, wresp, wseen>>

-----------------------------------------------------------------------------
(* Bounds of the model.                                                    *)

\* longest item list handed to calculate_order_total
MaxItems == 2

\* largest quantity of one line item
MaxQty == 2

\* executions of the simulate_call cell
MaxRuns == 2

\* turns of one call that are in flight together
MaxTurns == 2

-----------------------------------------------------------------------------
(* Text.                                                                   *)

S_new_order == <<"n", "e", "w", "_", "o", "r", "d", "e", "r">>
S_modify_order == <<"m", "o", "d", "i", "f", "y", "_", "o", "r", "d", "e", "r">>
S_cancel_order == <<"c", "a", "n", "c", "e", "l", "_", "o", "r", "d", "e", "r">>
S_check_status == <<"c", "h", "e", "c", "k", "_", "s", "t", "a", "t", "u", "s">>
S_general_inquiry == <<"g", "e", "n", "e", "r", "a", "l", "_", "i", "n", "q", "u", "i", "r", "y">>
S_end_call == <<"e", "n", "d", "_", "c", "a", "l", "l">>
S_unclear == <<"u", "n", "c", "l", "e", "a", "r">>

\* the categories listed in the classifier's system prompt
IntentLabels ==
    {S_new_order, S_modify_order, S_cancel_order, S_check_status,
     S_general_inquiry, S_end_call, S_unclear}

\* contents the model can return to the classifier
R_padded == <<" ", "N", "e", "w", "_", "O", "r", "d", "e", "r", "\n">>
R_upper == <<"E", "N", "D", "_", "C", "A", "L", "L">>
R_extra == <<"n", "e", "w", "_", "o", "r", "d", "e", "r", " ", "p", "l", "e", "a", "s", "e">>
R_other == <<"P", "i", "z", "z", "a">>
R_empty == <<>>

RawLabels ==
    {S_new_order, S_general_inquiry, S_unclear, R_padded, R_upper, R_extra,
     R_other, R_empty}

S_margherita_pizza == <<"m", "a", "r", "g", "h", "e", "r", "i", "t", "a", " ", "p", "i", "z", "z", "a">>
S_seafood_linguine == <<"s", "e", "a", "f", "o", "o", "d", " ", "l", "i", "n", "g", "u", "i", "n", "e">>
S_tiramisu == <<"t", "i", "r", "a", "m", "i", "s", "u">>
N_Margherita_pizza == <<"M", "a", "r", "g", "h", "e", "r", "i", "t", "a", " ", "p", "i", "z", "z", "a">>
N_Tiramisu == <<"T", "i", "r", "a", "m", "i", "s", "u">>
N_TIRAMISU == <<"T", "I", "R", "A", "M", "I", "S", "U">>
N_Seafood_Linguine == <<"S", "e", "a", "f", "o", "o", "d", " ", "L", "i", "n", "g", "u", "i", "n", "e">>
N_mystery_item == <<"m", "y", "s", "t", "e", "r", "y", " ", "i", "t", "e", "m">>

\* item names the extraction can return
ItemNames ==
    {N_Margherita_pizza, S_seafood_linguine, N_TIRAMISU, N_mystery_item}

UpperToLower ==
    "A" :> "a" @@ "B" :> "b" @@ "C" :> "c" @@ "D" :> "d" @@ "E" :> "e" @@
    "F" :> "f" @@ "G" :> "g" @@ "H" :> "h" @@ "I" :> "i" @@ "J" :> "j" @@
    "K" :> "k" @@ "L" :> "l" @@ "M" :> "m" @@ "N" :> "n" @@ "O" :> "o" @@
    "P" :> "p" @@ "Q" :> "q" @@ "R" :> "r" @@ "S" :> "s" @@ "T" :> "t" @@
    "U" :> "u" @@ "V" :> "v" @@ "W" :> "w" @@ "X" :> "x" @@ "Y" :> "y" @@
    "Z" :> "z"

Whitespace == {" ", "\n", "\t", "\r"}

LowerChar(c) == IF c \in DOMAIN UpperToLower THEN UpperToLower[c] ELSE c

\* str.lower()
lower(s) == [i \in 1..Len(s) |-> LowerChar(s[i])]

RECURSIVE lstrip(_)
lstrip(s) ==
    IF s # <<>> /\ Head(s) \in Whitespace THEN lstrip(Tail(s)) ELSE s

RECURSIVE rstrip(_)
rstrip(s) ==
    IF s # <<>> /\ s[Len(s)] \in Whitespace
    THEN rstrip(SubSeq(s, 1, Len(s) - 1))
    ELSE s

\* str.strip()
strip(s) == rstrip(lstrip(s))

-----------------------------------------------------------------------------
(* Results of a Python call: a returned value or a raised exception.       *)

NoError == "none"

\* no exception pending: the running cell has not failed
NoExc == [type |-> NoError, line |-> "none"]

\* exception of class type raised while simulate_call was at statement line
Exc(type, line) == [type |-> type, line |-> line]

Return(v) == [raised |-> FALSE, value |-> v, error |-> NoError]

Raise(e) == [raised |-> TRUE, value |-> <<>>, error |-> e]

(* The language model behind openai.chat.completions.create: the request   *)
(* either returns a completion or raises one of the client's errors.       *)

ApiErrors == {"APITimeoutError", "RateLimitError"}

Completion(content) == [ok |-> TRUE, content |-> content, error |-> NoError]

ApiFailure(e) == [ok |-> FALSE, content |-> <<>>, error |-> e]

Failures == {ApiFailure(e) : e \in ApiErrors}

-----------------------------------------------------------------------------
(* classify_intent                                                         *)

ClassifyPrompt == "Classify the customer's intent."

\* the message list classify_intent sends to the model
classify_messages(transcript) ==
    <<[role |-> "system", content |-> ClassifyPrompt],
      [role |-> "user", content |-> transcript]>>

classify_intent(resp) ==
    IF resp.ok
    THEN Return(lower(strip(resp.content)))
    ELSE Raise(resp.error)

-----------------------------------------------------------------------------
(* generate_twiml_response                                                 *)

GatherTimeout == 3

Say(ai_message) ==
    [verb |-> "Say", body |-> ai_message, voice |-> "Polly.Joanna"]

Gather ==
    [verb |-> "Gather", input |-> "speech", action |-> "/voice/process-speech",
     timeout |-> GatherTimeout, speech_timeout |-> "auto",
     language |-> "en-US"]

Redirect(url) == [verb |-> "Redirect", body |-> url]

\* the redirect written outside the if: every document ends with it
generate_twiml_response_redirect_always(ai_message, gather_speech) ==
    LET said == <<Say(ai_message)>>
    IN  Append(IF gather_speech THEN Append(said, Gather) ELSE said,
               Redirect("/voice/handle-no-input"))

generate_twiml_response(ai_message, gather_speech) ==
    LET said == <<Say(ai_message)>>
    IN  IF gather_speech
        THEN Append(Append(said, Gather), Redirect("/voice/handle-no-input"))
        ELSE said

-----------------------------------------------------------------------------
(* calculate_order_total                                                   *)

DefaultPrice == 1000

menu_prices ==
    S_margherita_pizza :> 1600 @@ S_seafood_linguine :> 2200 @@
    S_tiramisu :> 800

\* dict.get(key, default)
get(d, key, default) == IF key \in DOMAIN d THEN d[key] ELSE default

\* the loop without .lower(): the menu is looked up by the name as given
RECURSIVE order_total_loop_case_sensitive(_, _)
order_total_loop_case_sensitive(order_items, total) ==
    IF order_items = <<>>
    THEN total
    ELSE LET item == Head(order_items)
             item_name == get(item, "item", <<>>)
             quantity == get(item, "quantity", 1)
             price == get(menu_prices, item_name, DefaultPrice)
         IN  order_total_loop_case_sensitive(Tail(order_items),
                                             total + price * quantity)

RECURSIVE order_total_loop(_, _)
order_total_loop(order_items, total) ==
    IF order_items = <<>>
    THEN total
    ELSE LET item == Head(order_items)
             item_name == lower(get(item, "item", <<>>))
             quantity == get(item, "quantity", 1)
             price == get(menu_prices, item_name, DefaultPrice)
         IN  order_total_loop(Tail(order_items), total + price * quantity)

calculate_order_total(order_items) == order_total_loop(order_items, 0)

-----------------------------------------------------------------------------
(* Python values that may be None.                                         *)

None == [tag |-> "None"]

PyStr(s) == [tag |-> "str", v |-> s]

PyInt(n) == [tag |-> "int", v |-> n]

\* truth value of a dict: empty is false
truthy(d) == DOMAIN d # {}

-----------------------------------------------------------------------------
(* generate_response                                                       *)

SystemPrompt == "You are an AI assistant for Mario's Italian Restaurant."

Message(role, content) == [role |-> role, content |-> content]

\* the loop over conversation_history
RECURSIVE history_messages(_, _)
history_messages(history, msgs) ==
    IF history = <<>>
    THEN msgs
    ELSE LET exchange == Head(history)
             with_user == Append(msgs, Message("user", exchange["customer"]))
             with_reply ==
                 IF "assistant" \in DOMAIN exchange
                 THEN Append(with_user,
                             Message("assistant", exchange["assistant"]))
                 ELSE with_user
         IN  history_messages(Tail(history), with_reply)

\* json.dumps of the order_data dict {"order_id": n}
json_dumps_order_data(order_data) ==
    "{\"order_id\": " \o ToString(order_data["order_id"]) \o "}"

\* the message list generate_response sends to the model
generate_messages(transcript, history, order_data) ==
    LET from_history ==
            history_messages(history, <<Message("system", SystemPrompt)>>)
        with_current == Append(from_history, Message("user", transcript))
    IN  IF truthy(order_data)
        THEN Append(with_current,
                    Message("system",
                            "Customer has an existing order: "
                                \o json_dumps_order_data(order_data)))
        ELSE with_current

generate_response(resp) ==
    IF resp.ok THEN Return(resp.content) ELSE Raise(resp.error)

-----------------------------------------------------------------------------
(* parse_order_details                                                     *)

\* the loop that renders conversation_history as "Customer: ..." lines
RECURSIVE conversation_lines(_, _)
conversation_lines(history, full_conversation) ==
    IF history = <<>>
    THEN full_conversation
    ELSE LET exchange == Head(history)
             with_customer ==
                 IF "customer" \in DOMAIN exchange
                 THEN full_conversation
                          \o "Customer: " \o exchange["customer"] \o "\n"
                 ELSE full_conversation
             with_assistant ==
                 IF "assistant" \in DOMAIN exchange
                 THEN with_customer
                          \o "Assistant: " \o exchange["assistant"] \o "\n"
                 ELSE with_customer
         IN  conversation_lines(Tail(history), with_assistant)

ExtractPrompt == "Extract order details from the conversation."

\* the message list parse_order_details sends to the model
extraction_messages(transcript, history) ==
    <<Message("system", ExtractPrompt),
      Message("user",
              conversation_lines(history, "") \o "Customer: " \o transcript)>>

(* Payloads the model returns to the extraction request, as text.          *)

P_john ==
    "{\"customer_name\": \"John\", \"order_items\": [{\"item\": \"Margherita pizza\", \"quantity\": 1}, {\"item\": \"Tiramisu\", \"quantity\": 1}], \"is_delivery\": true, \"address\": null, \"reservation_time\": null, \"party_size\": null}"

P_null_name ==
    "{\"customer_name\": null, \"order_items\": [{\"item\": \"mystery item\", \"quantity\": 2}], \"is_delivery\": false, \"address\": null, \"reservation_time\": null, \"party_size\": null}"

P_no_name ==
    "{\"order_items\": [{\"item\": \"TIRAMISU\"}], \"is_delivery\": false}"

P_reservation ==
    "{\"customer_name\": \"Ana\", \"order_items\": [], \"is_delivery\": false, \"address\": null, \"reservation_time\": \"2025-05-01T19:00:00\", \"party_size\": 6}"

\* a reply that states a total of its own, next to the keys the prompt asks for
P_with_total ==
    "{\"customer_name\": \"Mia\", \"order_items\": [{\"item\": \"seafood linguine\", \"quantity\": 2}], \"order_total\": 999, \"is_delivery\": true, \"address\": null, \"reservation_time\": null, \"party_size\": null}"

P_truncated == "{\"customer_name\": \"Jo"

P_prose == "Sure! Here are the order details you asked for."

ValidPayloads ==
    {P_john, P_null_name, P_no_name, P_reservation, P_with_total}

Payloads == ValidPayloads \cup {P_truncated, P_prose}

\* json.loads on the payloads above: the value it returns
json_value(text) ==
    CASE text = P_john ->
           [customer_name |-> PyStr("John"),
            order_items |-> <<[item |-> N_Margherita_pizza, quantity |-> 1],
                              [item |-> N_Tiramisu, quantity |-> 1]>>,
            is_delivery |-> TRUE, address |-> None,
            reservation_time |-> None, party_size |-> None]
      [] text = P_null_name ->
           [customer_name |-> None,
            order_items |-> <<[item |-> N_mystery_item, quantity |-> 2]>>,
            is_delivery |-> FALSE, address |-> None,
            reservation_time |-> None, party_size |-> None]
      [] text = P_no_name ->
           [order_items |-> <<[item |-> N_TIRAMISU]>>, is_delivery |-> FALSE]
      [] text = P_reservation ->
           [customer_name |-> PyStr("Ana"), order_items |-> <<>>,
            is_delivery |-> FALSE, address |-> None,
            reservation_time |-> PyStr("2025-05-01T19:00:00"),
            party_size |-> PyInt(6)]
      [] text = P_with_total ->
           [customer_name |-> PyStr("Mia"),
            order_items |-> <<[item |-> S_seafood_linguine, quantity |-> 2]>>,
            order_total |-> 999,
            is_delivery |-> TRUE, address |-> None,
            reservation_time |-> None, party_size |-> None]

\* json.loads: JSONDecodeError on text that is not JSON
json_loads(text) ==
    IF text \in ValidPayloads
    THEN Return(json_value(text))
    ELSE Raise("JSONDecodeError")

\* the dict of the except branch
parsing_error_fallback ==
    [customer_name |-> None, order_items |-> <<>>, is_delivery |-> FALSE,
     address |-> None, reservation_time |-> None, party_size |-> None,
     parsing_error |-> TRUE]

parse_order_details(resp) ==
    IF ~resp.ok
    THEN Raise(resp.error)
    ELSE LET loaded == json_loads(resp.content)
         IN  IF loaded.raised /\ loaded.error = "JSONDecodeError"
             THEN Return(parsing_error_fallback)
             ELSE loaded

-----------------------------------------------------------------------------
(* parse_datetime                                                          *)

\* strings datetime.fromisoformat accepts, with the datetime they denote
IsoFormat == "2025-05-01T19:00:00" :> "2025-05-01 19:00:00"

\* strings only strptime("%Y-%m-%d %H:%M:%S") accepts
StrptimeFormat == "2025-5-1 19:00:00" :> "2025-05-01 19:00:00"

PyDatetime(d) == [tag |-> "datetime", v |-> d]

parse_datetime(datetime_str) ==
    IF datetime_str = None \/ datetime_str = PyStr("")
    THEN None
    ELSE IF datetime_str.v \in DOMAIN IsoFormat
         THEN PyDatetime(IsoFormat[datetime_str.v])
         ELSE IF datetime_str.v \in DOMAIN StrptimeFormat
              THEN PyDatetime(StrptimeFormat[datetime_str.v])
              ELSE None

-----------------------------------------------------------------------------
(* json.dumps, as the sequence of tokens of the text it writes.            *)

Quote(s) == "\"" \o s \o "\""

\* the string made of the characters of s
RECURSIVE join(_)
join(s) == IF s = <<>> THEN "" ELSE Head(s) \o join(Tail(s))

json_dumps_exchange(exchange) ==
    <<"{">>
    \o (IF "customer" \in DOMAIN exchange
        THEN <<Quote("customer"), ":", Quote(exchange["customer"])>>
        ELSE <<>>)
    \o (IF "assistant" \in DOMAIN exchange
        THEN <<",", Quote("assistant"), ":", Quote(exchange["assistant"])>>
        ELSE <<>>)
    \o <<"}">>

json_dumps_item(item) ==
    <<"{">>
    \o (IF "item" \in DOMAIN item
        THEN <<Quote("item"), ":", Quote(join(item["item"]))>>
        ELSE <<>>)
    \o (IF "item" \in DOMAIN item /\ "quantity" \in DOMAIN item
        THEN <<",">>
        ELSE <<>>)
    \o (IF "quantity" \in DOMAIN item
        THEN <<Quote("quantity"), ":", ToString(item["quantity"])>>
        ELSE <<>>)
    \o <<"}">>

\* the tokens of a JSON array whose elements are already written
RECURSIVE json_dumps_elements(_, _)
json_dumps_elements(elements, tokens) ==
    IF elements = <<>>
    THEN tokens \o <<"]">>
    ELSE json_dumps_elements(
             Tail(elements),
             tokens \o (IF tokens = <<"[">> THEN <<>> ELSE <<",">>)
                    \o Head(elements))

\* json.dumps(conversation_history)
json_dumps_history(history) ==
    json_dumps_elements(
        [i \in 1..Len(history) |-> json_dumps_exchange(history[i])], <<"[">>)

\* json.dumps(order_items)
json_dumps_items(order_items) ==
    json_dumps_elements(
        [i \in 1..Len(order_items) |-> json_dumps_item(order_items[i])],
        <<"[">>)

-----------------------------------------------------------------------------
(* save_order and the tables                                               *)

\* the row with the total taken from the extracted draft
Order_total_from_draft(details, phone) ==
    [customer_name |-> get(details, "customer_name", PyStr("Unknown")),
     customer_phone |-> phone,
     order_items |-> json_dumps_items(get(details, "order_items", <<>>)),
     order_total |-> get(details, "order_total", 0),
     reservation_time |->
         parse_datetime(get(details, "reservation_time", None)),
     party_size |-> get(details, "party_size", None),
     status |-> "confirmed"]

\* Order(...): the row save_order builds; status takes the column default
Order(details, phone) ==
    [customer_name |-> get(details, "customer_name", PyStr("Unknown")),
     customer_phone |-> phone,
     order_items |-> json_dumps_items(get(details, "order_items", <<>>)),
     order_total |-> calculate_order_total(get(details, "order_items", <<>>)),
     reservation_time |->
         parse_datetime(get(details, "reservation_time", None)),
     party_size |-> get(details, "party_size", None),
     status |-> "confirmed"]

\* customer_name is declared nullable=False: the commit rejects None (the
\* other non-nullable columns are always given a string by save_order)
OrderIntegrityError(row) == row.customer_name = None

\* Conversation(...): the row simulate_call builds
Conversation(sid, phone, history, oid) ==
    [call_sid |-> sid, customer_phone |-> phone,
     conversation_log |-> json_dumps_history(history), order_id |-> oid]

\* the autoincrement primary key of the next row of a table
next_id(table) == Len(table) + 1

\* session.add(row); session.commit()
insert(table, row) == Append(table, [id |-> next_id(table)] @@ row)

-----------------------------------------------------------------------------
(* simulate_call: the scripted call, one action per statement.             *)

customer_phone == "+15551234567"

call_sid == "SIM12345678"

customer_response ==
    <<"Hi, I'd like to place an order for delivery.",
      "I'd like a Margherita pizza and a tiramisu for dessert. My name is John.",
      "That sounds good. Thank you.">>

\* replies the model can generate
Replies ==
    {"Of course! May I have your name, please?",
     "Thank you. Anything else?"}

ClassifyResponses == {Completion(r) : r \in RawLabels} \cup Failures

GenerateResponses == {Completion(r) : r \in Replies} \cup Failures

ExtractResponses == {Completion(p) : p \in Payloads} \cup Failures

NotRunning == {"idle", "done", "failed"}

\* an exception leaves simulate_call: the cell stops at this statement
Propagate(error, line) ==
    /\ pc' = "failed"
    /\ exc' = Exc(error, line)

\* lines 481-488: the cell is run; the tables keep their rows
Start ==
    /\ pc \in NotRunning
    /\ runs < MaxRuns
    /\ runs' = runs + 1
    /\ pc' = "l499"
    /\ conversation_history' = <<>>
    /\ exc' = NoExc
    /\ intent' = None
    /\ ai_response' = None
    /\ order_details' = None
    /\ order_id' = None
    /\ response' = None
    /\ messages' = <<>>
    /\ attempts' = 0
    /\ UNCHANGED <<orders, conversations>>
    /\ UNCHANGED cellVars
    /\ UNCHANGED turnVars

\* line 499: intent = classify_intent(customer_response_1)
Classify ==
    /\ pc = "l499"
    /\ \E resp \in ClassifyResponses :
         LET result == classify_intent(resp)
         IN  /\ response' = resp
             /\ attempts' = 1
             /\ messages' = classify_messages(customer_response[1])
             /\ IF result.raised
                THEN /\ Propagate(result.error, "l499")
                     /\ UNCHANGED intent
                ELSE /\ intent' = PyStr(result.value)
                     /\ pc' = "l503"
                     /\ UNCHANGED exc
    /\ UNCHANGED <<conversation_history, ai_response, order_details, order_id,
                   orders, conversations, runs>>
    /\ UNCHANGED cellVars
    /\ UNCHANGED turnVars

\* lines 503, 517, 551: conversation_history.append({"customer": ...})
AppendCustomer(line, next, n) ==
    /\ pc = line
    /\ conversation_history' =
           Append(conversation_history, [customer |-> customer_response[n]])
    /\ pc' = next
    /\ UNCHANGED <<intent, messages, order_details, order_id, orders,
                   conversations, exc, attempts, runs, response, ai_response>>
    /\ UNCHANGED cellVars
    /\ UNCHANGED turnVars

\* lines 506, 520, 554: ai_response_n = generate_response(...)
Generate(line, next, n, order_data) ==
    /\ pc = line
    /\ \E resp \in GenerateResponses :
         LET result == generate_response(resp)
         IN  /\ response' = resp
             /\ attempts' = 1
             /\ messages' = generate_messages(customer_response[n],
                                              conversation_history, order_data)
             /\ IF result.raised
                THEN /\ Propagate(result.error, line)
                     /\ UNCHANGED ai_response
                ELSE /\ ai_response' = PyStr(result.value)
                     /\ pc' = next
                     /\ UNCHANGED exc
    /\ UNCHANGED <<conversation_history, intent, order_details, order_id,
                   orders, conversations, runs>>
    /\ UNCHANGED cellVars
    /\ UNCHANGED turnVars

\* history[-1]["assistant"] = reply
set_assistant(history, reply) ==
    [history EXCEPT ![Len(history)] = ("assistant" :> reply) @@ @]

\* lines 510, 524: conversation_history[-1]["assistant"] = ai_response_n
SetAssistant(line, next) ==
    /\ pc = line
    /\ conversation_history' =
           set_assistant(conversation_history, ai_response.v)
    /\ pc' = next
    /\ UNCHANGED <<intent, messages, order_details, order_id, orders,
                   conversations, exc, attempts, runs, response, ai_response>>
    /\ UNCHANGED cellVars
    /\ UNCHANGED turnVars

\* line 527: order_details = parse_order_details(customer_response_2, ...)
ParseOrder ==
    /\ pc = "l527"
    /\ \E resp \in ExtractResponses :
         LET result == parse_order_details(resp)
         IN  /\ response' = resp
             /\ attempts' = 1
             /\ messages' = extraction_messages(customer_response[2],
                                                conversation_history)
             /\ IF result.raised
                THEN /\ Propagate(result.error, "l527")
                     /\ UNCHANGED order_details
                ELSE /\ order_details' = result.value
                     /\ pc' = "l531"
                     /\ UNCHANGED exc
    /\ UNCHANGED <<conversation_history, intent, order_id, orders,
                   conversations, runs, ai_response>>
    /\ UNCHANGED cellVars
    /\ UNCHANGED turnVars

\* line 531: order_id = save_order(order_details, customer_phone)
SaveOrder ==
    /\ pc = "l531"
    /\ LET new_order == Order(order_details, customer_phone)
       IN  /\ total_args' = get(order_details, "order_items", <<>>)
           /\ order_total' = PyInt(new_order.order_total)
           /\ IF OrderIntegrityError(new_order)
              THEN /\ Propagate("IntegrityError", "l531")
                   /\ UNCHANGED <<orders, order_id>>
              ELSE /\ orders' = insert(orders, new_order)
                   /\ order_id' = PyInt(next_id(orders))
                   /\ pc' = "l535"
                   /\ UNCHANGED exc
    /\ UNCHANGED <<conversation_history, intent, messages, order_details,
                   conversations, attempts, runs, response, ai_response>>
    /\ UNCHANGED <<twiml_args, twiml_response>>
    /\ UNCHANGED turnVars

\* lines 535-543: the conversation row is added and committed
SaveConversation ==
    /\ pc = "l535"
    /\ conversations' =
           insert(conversations,
                  Conversation(call_sid, customer_phone, conversation_history,
                               order_id))
    /\ pc' = "l551"
    /\ UNCHANGED <<conversation_history, intent, messages, order_details,
                   order_id, orders, exc, attempts, runs, response,
                   ai_response>>
    /\ UNCHANGED cellVars
    /\ UNCHANGED turnVars

\* no order_data argument: the default None, which is false like {}
NoOrderData == <<>>

SimulateCall ==
    \/ Start
    \/ Classify
    \/ AppendCustomer("l503", "l506", 1)
    \/ Generate("l506", "l510", 1, NoOrderData)
    \/ SetAssistant("l510", "l517")
    \/ AppendCustomer("l517", "l520", 2)
    \/ Generate("l520", "l524", 2, NoOrderData)
    \/ SetAssistant("l524", "l527")
    \/ ParseOrder
    \/ SaveOrder
    \/ SaveConversation
    \/ AppendCustomer("l551", "l554", 3)
    \/ Generate("l554", "done", 3, [order_id |-> order_id.v])

-----------------------------------------------------------------------------
(* The test cells under the function definitions.                          *)

ai_greeting ==
    "Thank you for calling Mario's Italian Restaurant. How can I assist you today?"

\* line items the extraction can return; a key may be missing
Items ==
    {[item |-> n, quantity |-> q] : n \in ItemNames, q \in 1..MaxQty}
        \cup {[item |-> N_Seafood_Linguine]}

\* the lists calculate_order_total is called with: the empty list, or the
\* list of the call before with one more item
NextItemLists ==
    {l \in {<<>>} \cup {Append(total_args, item) : item \in Items} :
        Len(l) <= MaxItems}

\* lines 321-322: twiml_response = generate_twiml_response(...)
TwimlCell ==
    /\ \E ai_message \in Replies \cup {ai_greeting}, gather_speech \in BOOLEAN :
         /\ twiml_args' = [ai_message |-> ai_message,
                           gather_speech |-> gather_speech]
         /\ twiml_response' =
                generate_twiml_response(ai_message, gather_speech)
    /\ UNCHANGED <<total_args, order_total>>
    /\ UNCHANGED callVars
    /\ UNCHANGED turnVars

\* calculate_order_total(order_items), called on its own
TotalCell ==
    /\ \E order_items \in NextItemLists :
         /\ total_args' = order_items
         /\ order_total' = PyInt(calculate_order_total(order_items))
    /\ UNCHANGED <<twiml_args, twiml_response>>
    /\ UNCHANGED callVars
    /\ UNCHANGED turnVars

-----------------------------------------------------------------------------
(* Specifications.                                                         *)

Init ==
    /\ pc = "idle"
    /\ conversation_history = <<>>
    /\ intent = None
    /\ messages = <<>>
    /\ order_details = None
    /\ order_id = None
    /\ orders = <<>>
    /\ conversations = <<>>
    /\ exc = NoExc
    /\ attempts = 0
    /\ runs = 0
    /\ twiml_args = None
    /\ twiml_response = <<>>
    /\ total_args = <<>>
    /\ order_total = None
    /\ response = None
    /\ ai_response = None
    /\ wpc = <<>>
    /\ wtranscript = <<>>
    /\ wresp = <<>>
    /\ wseen = <<>>

\* the call flow, run up to MaxRuns times against the same database
Next == SimulateCall

Spec == Init /\ [][Next]_vars

\* the function cells, run in any order
NextCells == TwimlCell \/ TotalCell

SpecCells == Init /\ [][NextCells]_vars

-----------------------------------------------------------------------------
(* Turns of one call submitted together.  A turn is the three statements   *)
(* simulate_call runs for a caller utterance (lines 517, 520, 524) on the  *)
(* call's conversation_history.  The code takes no lock and keeps no       *)
(* per-call owner, so the statements of two turns may run in any order;    *)
(* the request to the model is where a turn waits.                         *)

Turn == 1..MaxTurns

turn_transcript(t) ==
    IF t <= Len(customer_response) THEN customer_response[t]
    ELSE "Can you repeat that?"

\* line 517: conversation_history.append({"customer": transcript})
TurnAppend(t) ==
    /\ wpc[t] = "l517"
    /\ conversation_history' =
           Append(conversation_history, [customer |-> wtranscript[t]])
    /\ wpc' = [wpc EXCEPT ![t] = "l520"]
    /\ UNCHANGED <<wtranscript, wresp, wseen>>
    /\ UNCHANGED <<pc, intent, messages, order_details, order_id, orders,
                   conversations, exc, attempts, runs, response, ai_response>>
    /\ UNCHANGED cellVars

\* line 520: ai_response = generate_response(transcript, conversation_history)
TurnGenerate(t) ==
    /\ wpc[t] = "l520"
    /\ \E resp \in GenerateResponses :
         LET result == generate_response(resp)
         IN  /\ wseen' = [wseen EXCEPT ![t] =
                             generate_messages(wtranscript[t],
                                               conversation_history,
                                               NoOrderData)]
             /\ IF result.raised
                THEN /\ wpc' = [wpc EXCEPT ![t] = "failed"]
                     /\ UNCHANGED wresp
                ELSE /\ wpc' = [wpc EXCEPT ![t] = "l524"]
                     /\ wresp' = [wresp EXCEPT ![t] = PyStr(result.value)]
    /\ UNCHANGED wtranscript
    /\ UNCHANGED callVars
    /\ UNCHANGED cellVars

\* line 524: conversation_history[-1]["assistant"] = ai_response
TurnSetAssistant(t) ==
    /\ wpc[t] = "l524"
    /\ conversation_history' =
           set_assistant(conversation_history, wresp[t].v)
    /\ wpc' = [wpc EXCEPT ![t] = "done"]
    /\ UNCHANGED <<wtranscript, wresp, wseen>>
    /\ UNCHANGED <<pc, intent, messages, order_details, order_id, orders,
                   conversations, exc, attempts, runs, response, ai_response>>
    /\ UNCHANGED cellVars

\* the call so far: nothing said yet, or one completed exchange
InitTurns ==
    /\ pc = "idle"
    /\ conversation_history \in
           {<<>>} \cup {<<[customer |-> "Hello?", assistant |-> r]>> :
                           r \in Replies}
    /\ intent = None
    /\ messages = <<>>
    /\ order_details = None
    /\ order_id = None
    /\ orders = <<>>
    /\ conversations = <<>>
    /\ exc = NoExc
    /\ attempts = 0
    /\ runs = 0
    /\ twiml_args = None
    /\ twiml_response = <<>>
    /\ total_args = <<>>
    /\ order_total = None
    /\ response = None
    /\ ai_response = None
    /\ wpc = [t \in Turn |-> "l517"]
    /\ wtranscript = [t \in Turn |-> turn_transcript(t)]
    /\ wresp = [t \in Turn |-> None]
    /\ wseen = [t \in Turn |-> <<>>]

NextTurns ==
    \E t \in Turn : TurnAppend(t) \/ TurnGenerate(t) \/ TurnSetAssistant(t)

SpecTurns == InitTurns /\ [][NextTurns]_vars

-----------------------------------------------------------------------------
(* Properties.                                                             *)

\* which function sent the last request to the model
LastRequestBy ==
    IF messages = <<>> THEN "none"
    ELSE IF messages[1].content = ClassifyPrompt THEN "classify_intent"
    ELSE IF messages[1].content = ExtractPrompt THEN "parse_order_details"
    ELSE "generate_response"

GenerateLines == {"l506", "l520", "l554"}

\* C1: classify returns one of the seven intent labels whatever text the
\* model returns; text that is not a label after case normalization is
\* mapped to unclear.
C1_ClassifyReturnsLabel ==
    intent # None =>
        /\ intent.v \in IntentLabels
        /\ (LastRequestBy = "classify_intent"
                /\ lower(strip(response.content)) \notin IntentLabels)
               => intent.v = S_unclear

\* C2: the built document is exactly <<speak(message), listen, redirect to
\* the no-input handler>> when further speech is expected and exactly
\* <<speak(message)>> when it is not.
C2_DocumentShape ==
    twiml_args # None =>
        LET doc == twiml_response
            Steps(verb) == {i \in 1..Len(doc) : doc[i].verb = verb}
        IN  /\ Steps("Say") = {1}
            /\ doc[1].body = twiml_args.ai_message
            /\ Steps("Gather") = (IF twiml_args.gather_speech THEN {2} ELSE {})
            /\ Steps("Redirect") = {i + 1 : i \in Steps("Gather")}
            /\ \A i \in Steps("Redirect") :
                   doc[i].body = "/voice/handle-no-input"
            /\ Len(doc) = Cardinality(Steps("Say") \cup Steps("Gather")
                                          \cup Steps("Redirect"))

\* a document with the listen step and the redirect has been built
C2_Witness ==
    /\ twiml_args # None
    /\ twiml_args.gather_speech
    /\ twiml_args.ai_message = ai_greeting
    /\ Len(twiml_response) = 3

\* the price table as the claim states it
ClaimedMenu ==
    {<<S_margherita_pizza, 1600>>, <<S_seafood_linguine, 2200>>,
     <<S_tiramisu, 800>>}

\* two names that differ at most in the case of their letters
SameIgnoringCase(a, b) ==
    /\ Len(a) = Len(b)
    /\ \A i \in 1..Len(a) :
           \/ a[i] = b[i]
           \/ a[i] \in DOMAIN UpperToLower /\ UpperToLower[a[i]] = b[i]
           \/ b[i] \in DOMAIN UpperToLower /\ UpperToLower[b[i]] = a[i]

ClaimedUnitPrice(name) ==
    IF \E entry \in ClaimedMenu : SameIgnoringCase(entry[1], name)
    THEN (CHOOSE entry \in ClaimedMenu : SameIgnoringCase(entry[1], name))[2]
    ELSE 1000

RECURSIVE ClaimedTotal(_)
ClaimedTotal(items) ==
    IF items = <<>>
    THEN 0
    ELSE ClaimedUnitPrice(Head(items).item) * Head(items).quantity
             + ClaimedTotal(Tail(items))

\* every item of the list has a name and a quantity
HasNameAndQuantity(items) ==
    \A i \in 1..Len(items) : DOMAIN items[i] = {"item", "quantity"}

TotalIsClaimedSum ==
    (order_total # None /\ HasNameAndQuantity(total_args))
        => order_total.v = ClaimedTotal(total_args)

\* a step that computes a total changes nothing but the value it returns
TotalChangesNoState ==
    (total_args' # total_args \/ order_total' # order_total)
        => /\ UNCHANGED callVars
           /\ UNCHANGED turnVars
           /\ UNCHANGED <<twiml_args, twiml_response>>

\* C3: computeTotal returns the sum of unit price times quantity, the unit
\* price being the menu price of the name matched case-insensitively and
\* 1000 for a name not on the menu; the same list always gives the same
\* value and the call changes no state.
C3_ComputeTotal == []TotalIsClaimedSum /\ [][TotalChangesNoState]_vars

\* a mixed-case menu name and an unknown name have been priced: 2*1600 + 1000
C3_Witness ==
    /\ order_total = PyInt(4200)
    /\ total_args = <<[item |-> N_Margherita_pizza, quantity |-> 2],
                      [item |-> N_mystery_item, quantity |-> 1]>>

\* the exchange turn t leaves in the history when it runs alone
CompletedExchange(t) ==
    [customer |-> wtranscript[t], assistant |-> wresp[t].v]

RECURSIVE Turns(_)
Turns(history) ==
    IF history = <<>>
    THEN <<>>
    ELSE LET exchange == Head(history)
         IN  <<[speaker |-> "caller", text |-> exchange["customer"]]>>
             \o (IF "assistant" \in DOMAIN exchange
                 THEN <<[speaker |-> "assistant",
                         text |-> exchange["assistant"]]>>
                 ELSE <<>>)
             \o Turns(Tail(history))

IsPrefix(a, b) == Len(a) <= Len(b) /\ SubSeq(b, 1, Len(a)) = a

\* every entry carries a timestamp and the timestamps never decrease
TimestampsNonDecreasing(history) ==
    \A i \in 1..Len(history) :
        /\ "timestamp" \in DOMAIN history[i]
        /\ i > 1 => history[i - 1]["timestamp"] <= history[i]["timestamp"]

\* C5: while a call is processed the turn history only grows at its end:
\* the turns recorded so far keep position and content, and the timestamps
\* along the history are non-decreasing.
C5_HistoryAppendOnly ==
    [][/\ pc' # "l499" => IsPrefix(Turns(conversation_history),
                                   Turns(conversation_history'))
       /\ TimestampsNonDecreasing(conversation_history')]_vars

\* the draft extract returns when it could not read an order
IsEmptyFailedDraft(draft) ==
    /\ draft # None
    /\ DOMAIN draft = {"customer_name", "order_items", "is_delivery",
                       "address", "reservation_time", "party_size",
                       "parsing_error"}
    /\ draft["customer_name"] = None
    /\ draft["order_items"] = <<>>
    /\ draft["is_delivery"] = FALSE
    /\ draft["address"] = None
    /\ draft["reservation_time"] = None
    /\ draft["party_size"] = None
    /\ draft["parsing_error"] = TRUE

\* C6: when the extraction payload is not valid structured data, or the
\* model call fails, extract returns the all-empty draft flagged as failed
\* and raises nothing.
C6_ExtractNeverRaises ==
    (LastRequestBy = "parse_order_details"
         /\ (~response.ok \/ response.content \notin ValidPayloads))
        => /\ exc.line # "l527"
           /\ IsEmptyFailedDraft(order_details)

\* the utterance generate is to return when the model cannot be reached
FallbackUtterance ==
    "I'm sorry, I'm having trouble. Would you like me to transfer you to a person?"

\* C7: when the model call made by generate fails, generate returns the
\* fallback utterance instead of raising, and the document built from it has
\* a listen step.
C7_GenerateFallsBack ==
    (LastRequestBy = "generate_response" /\ ~response.ok)
        => /\ exc.line \notin GenerateLines
           /\ ai_response = PyStr(FallbackUtterance)
           /\ \E i \in 1..Len(generate_twiml_response(ai_response.v, TRUE)) :
                  generate_twiml_response(ai_response.v, TRUE)[i].verb
                      = "Gather"

\* C8: classify propagates no failure: when the model call fails or returns
\* text that is not a label, the intent is unclear and the turn goes on to
\* response generation.
C8_ClassifyNeverAborts ==
    (LastRequestBy = "classify_intent"
         /\ (~response.ok
                 \/ lower(strip(response.content)) \notin IntentLabels))
        => /\ pc \in {"l503", "l506"}
           /\ intent = PyStr(S_unclear)

\* C9: a call to the model makes a bounded number of attempts and, when all
\* of them fail, ends with ExternalServiceError: what reaches the calling
\* component is a payload or that error.
C9_FailureIsClassified ==
    (response # None /\ ~response.ok)
        => /\ attempts >= 1
           /\ exc.type = "ExternalServiceError"

\* C10: however often the conversation-log write runs for a call, the store
\* holds exactly one conversation row with that call identifier.
C10_OneRowPerCall ==
    \A i, j \in 1..Len(conversations) :
        conversations[i].call_sid = conversations[j].call_sid => i = j

\* the call has reached completion: its conversation log has been written
\* (lines 535-543), which the data model places at session completion
SessionCompleted ==
    \/ pc \in {"l551", "l554", "done"}
    \/ pc = "failed" /\ exc.line = "l554"

\* C11: once the session of a call is completed its turn history never
\* changes again: a further turn for that call is rejected and leaves the
\* session as it was.
C11_CompletedSessionFrozen ==
    [][(SessionCompleted /\ pc' # "l499")
           => conversation_history' = conversation_history]_vars

\* the part of the message list that generate_response took from the
\* history: what lies between the system prompt and the current transcript
SentHistory ==
    LET last_user ==
            IF messages[Len(messages)].role = "system"
            THEN Len(messages) - 1
            ELSE Len(messages)
    IN  SubSeq(messages, 2, last_user - 1)

\* the log as the messages it would be sent as
RECURSIVE LogMessages(_)
LogMessages(turns) ==
    IF turns = <<>>
    THEN <<>>
    ELSE <<[role |-> IF Head(turns).speaker = "caller"
                     THEN "user" ELSE "assistant",
            content |-> Head(turns).text]>>
         \o LogMessages(Tail(turns))

\* a is b with some entries left out
RECURSIVE IsSubsequence(_, _)
IsSubsequence(a, b) ==
    IF a = <<>> THEN TRUE
    ELSE IF b = <<>> THEN FALSE
    ELSE IF Head(a) = Head(b) THEN IsSubsequence(Tail(a), Tail(b))
    ELSE IsSubsequence(a, Tail(b))

\* bounds on the number of turns handed to the model
TrimBounds == 2..4

\* C12: the history handed to generation is a subsequence of the log in the
\* log's order that keeps the first caller turn and the latest turn and has
\* at most maxTurns entries, for every bound maxTurns; the log itself is
\* left as it was.
C12_TrimmedHistory ==
    (LastRequestBy = "generate_response" /\ conversation_history # <<>>
         /\ pc \in {"l510", "l524", "done", "failed"})
        => LET log == LogMessages(Turns(conversation_history))
           IN  /\ IsSubsequence(SentHistory, log)
               /\ SentHistory # <<>>
               /\ Head(SentHistory) = Head(log)
               /\ SentHistory[Len(SentHistory)] = log[Len(log)]
               /\ \A maxTurns \in TrimBounds :
                      Len(log) > maxTurns => Len(SentHistory) <= maxTurns

\* C13: a failed order save does not keep the conversation log from being
\* written: a call that ended with the order save failing has its
\* conversation row, with no order linked.
C13_LogWrittenAfterFailedSave ==
    (pc = "failed" /\ exc.line = "l531")
        => \E i \in 1..Len(conversations) :
               /\ conversations[i].call_sid = call_sid
               /\ conversations[i].order_id = None
               /\ conversations[i].conversation_log
                      = json_dumps_history(conversation_history)

\* the turns of a call that has ended: the history, with the reply to the last
\* caller utterance
FullTurnSequence == set_assistant(conversation_history, ai_response.v)

\* C14: the conversation log persisted for a call holds the full turn
\* sequence of the call: every caller utterance and every assistant reply, up
\* to and including the last turn.
C14_LogHoldsFullTurnSequence ==
    pc = "done"
        => /\ conversations # <<>>
           /\ conversations[Len(conversations)].conversation_log
                  = json_dumps_history(FullTurnSequence)

\* the item lists an extraction can hold
DraftItemLists ==
    {get(json_value(p), "order_items", <<>>) : p \in ValidPayloads}
        \cup {parsing_error_fallback.order_items}

\* the item lists whose JSON text is the text persisted in the row
PersistedItems(row) ==
    {items \in DraftItemLists : json_dumps_items(items) = row.order_items}

\* C15: every persisted order record has a total equal to
\* calculate_order_total of the item list persisted in the same record, and
\* not the total the extracted draft states.
C15_TotalRecomputedFromItems ==
    \A i \in 1..Len(orders) :
        /\ PersistedItems(orders[i]) # {}
        /\ \A items \in PersistedItems(orders[i]) :
               orders[i].order_total = calculate_order_total(items)

\* an order is persisted from a draft that states another total than the
\* one its items add up to, and one from a draft that states none
C15_Witness ==
    /\ pc = "l535"
    /\ "order_total" \in DOMAIN order_details
    /\ order_details["order_total"]
           # calculate_order_total(order_details["order_items"])
    /\ orders[Len(orders)].order_total = 4400
    /\ Len(orders) = 2
    /\ orders[1].order_total = 2400

\* the caller and assistant messages of the last request, in order
Dialogue == SelectSeq(messages, LAMBDA m : m.role # "system")

\* the response has just been generated from the history, to which the
\* caller turn had been appended
JustGenerated ==
    /\ LastRequestBy = "generate_response"
    /\ \/ pc \in {"l510", "l524", "done"}
       \/ pc = "failed" /\ exc.line \in GenerateLines

\* C16: in the per-turn flow the message list sent to the model holds each
\* caller utterance of the history exactly once, in order, each earlier one
\* followed by its reply, and the current transcript once, as the last caller
\* message.
C16_TranscriptSentOnce ==
    JustGenerated
        => Dialogue = history_messages(conversation_history, <<>>)

\* the name the draft states, None when it states none
StatedName(details) == get(details, "customer_name", None)

\* C17: for every draft the extraction returns, the parse-failure draft and a
\* draft with a null customer name included, the order record save_order
\* submits has a customer name that is not null: the stated name when there
\* is one, "Unknown" otherwise.
C17_SubmittedNameNotNull ==
    (order_details # None
         /\ (pc \in {"l535", "l551", "l554", "done"}
                 \/ (pc = "failed" /\ exc.line \in {"l531", "l554"})))
        => LET submitted == Order(order_details, customer_phone)
           IN  /\ submitted.customer_name # None
               /\ submitted.customer_name
                      = IF StatedName(order_details) # None
                        THEN StatedName(order_details)
                        ELSE PyStr("Unknown")

=============================================================================
